---- MODULE Spec2Model ----
(***************************************************************************)
(* Model of app.py: the A1.art facade service.  Two create requests        *)
(* (POST /create, POST /generate) run concurrently on the event loop and   *)
(* interleave at their awaits on the provider; one status request          *)
(* (GET /status/{task_id}) polls the provider.  The provider, the local    *)
(* storage and the clock are the environment: every reply they can give    *)
(* is an input drawn from a small set.                                     *)
(*                                                                         *)
(* Python values: a dict is a record whose fields are options, None for a  *)
(* key that is missing and Some(v) for a key that is present.  The replies *)
(* drawn here carry no JSON null: a key is absent or holds a value of the  *)
(* type the provider documents.  Message texts are ASCII renderings of the *)
(* source's literals.                                                      *)
(***************************************************************************)
EXTENDS Integers, Sequences, FiniteSets, TLC

VARIABLES now, fs, TEMPLATES, handler, remote, poll

vars == <<now, fs, TEMPLATES, handler, remote, poll>>

----------------------------------------------------------------------------
(* Bounds of the model *)

\* the clock advances at most this many seconds during a run
MaxClock == 2

\* clock ticks per second: requests arrive at instants finer than the
\* one-second resolution of the timestamp
TicksPerSecond == 2

\* the create requests in flight
Req == {1, 2}

----------------------------------------------------------------------------
(* Python values *)

None == <<>>
Some(v) == <<v>>

\* dict.get(key, default)
GetOr(o, d) == IF o = None THEN d ELSE o[1]

\* a or b, on optional strings: the first one that is present and non-empty
OrElse(o, d) == IF o = None \/ o = Some("") THEN d ELSE o[1]

HTTPException(status_code, detail) ==
    [type |-> "HTTPException", status_code |-> status_code, detail |-> detail]

\* any exception that is not an HTTPException (aiohttp, KeyError, TypeError, OSError)
OtherException(text) ==
    [type |-> "Exception", status_code |-> 0, detail |-> text]

\* str(e): Starlette's HTTPException prints "<status_code>: <detail>"
StrExc(e) ==
    IF e.type = "HTTPException"
    THEN ToString(e.status_code) \o ": " \o e.detail
    ELSE e.detail

Ok(v) == [ok |-> TRUE, val |-> v]
Raise(e) == [ok |-> FALSE, exc |-> e]

\* except Exception as e: raise HTTPException(status_code=500, detail=str(e))
Except500(r) ==
    IF r.ok THEN r ELSE Raise(HTTPException(500, StrExc(r.exc)))

UNKNOWN_ERROR == "unknown error"

----------------------------------------------------------------------------
(* Template table *)

TemplateFile ==
    << [template_id |-> 0, name |-> "tpl0", app_id |-> "app0",
        version_id |-> "ver0", cnet_form_id |-> "cnet0"],
       [template_id |-> 1, name |-> "tpl1", app_id |-> "app1",
        version_id |-> "ver1", cnet_form_id |-> "cnet1"] >>

\* the configuration sources the process can start from: None is a missing
\* or malformed templates.json
ConfigSources == {None, Some(TemplateFile)}

\* {t['template_id']: t for t in data['templates']}, {} on any exception
load_templates(source) ==
    IF source = None
    THEN << >>
    ELSE LET ts == source[1]
             ids == {ts[i].template_id : i \in 1..Len(ts)}
         IN [id \in ids |-> ts[CHOOSE i \in 1..Len(ts) :
                                  /\ ts[i].template_id = id
                                  /\ \A j \in (i+1)..Len(ts) : ts[j].template_id # id]]

\* TEMPLATES.get(template_id), None when absent
get_template_config(table, template_id) ==
    IF template_id \in DOMAIN table THEN Some(table[template_id]) ELSE None

----------------------------------------------------------------------------
(* Provider replies: the environment's inputs *)

Body(code, msg_cn, msg, data) ==
    [code |-> code, msg_cn |-> msg_cn, msg |-> msg, data |-> data]

\* {} : a JSON object with none of the keys the service reads
EmptyBody == Body(None, None, None, None)

\* transport failure, timeout or a body that is not JSON
NetFail(cause) == [kind |-> "fail", status |-> 0, body |-> EmptyBody, cause |-> cause]

\* an HTTP reply with a JSON body
NetJson(status, body) == [kind |-> "json", status |-> status, body |-> body, cause |-> ""]

UploadData(imageUrl, path) == [imageUrl |-> imageUrl, path |-> path]

UploadReplies ==
    { NetFail("connection reset"),
      NetJson(200, Body(Some(0), None, None, Some(UploadData(Some("https://x/u1"), Some("p1"))))),
      NetJson(200, Body(Some(0), None, None, Some(UploadData(Some("https://x/u1"), None)))),
      NetJson(200, Body(Some(0), None, None, None)),
      NetJson(200, Body(Some(1), Some("bad image"), None, None)),
      NetJson(200, Body(Some(1), None, None, None)) }

GenData(taskId) == [taskId |-> taskId]

SubmitReplies ==
    { NetFail("timeout"),
      NetJson(200, Body(Some(0), None, None, Some(GenData(Some("T1"))))),
      NetJson(200, Body(Some(0), None, None, Some(GenData(Some("T2"))))),
      NetJson(200, Body(Some(0), None, None, Some(GenData(Some(""))))),
      NetJson(200, Body(Some(0), None, None, Some(GenData(None)))),
      NetJson(200, Body(Some(0), None, None, None)),
      NetJson(200, Body(Some(1), Some("quota exceeded"), Some("quota"), None)),
      NetJson(200, Body(Some(1), None, Some("quota"), None)),
      NetJson(200, Body(Some(1), None, None, None)),
      NetJson(200, EmptyBody),
      NetJson(403, Body(Some(1), Some("forbidden"), None, None)),
      NetJson(403, Body(Some(1), None, None, None)) }

----------------------------------------------------------------------------
(* Remote Provider Client *)

\* the try block of upload_image
upload_image_try(net) ==
    IF net.kind = "fail" THEN Raise(OtherException(net.cause))
    ELSE IF net.body.code = Some(0) THEN Ok(net.body.data)
    ELSE Raise(HTTPException(400, GetOr(net.body.msg_cn, UNKNOWN_ERROR)))

\* upload_image without the check of the embedded code
upload_image_unchecked(net) ==
    IF net.kind = "fail" THEN Raise(HTTPException(500, net.cause)) ELSE Ok(net.body.data)

upload_image(net) == Except500(upload_image_try(net))

\* the try block of generate_image
generate_image_try(net) ==
    IF net.kind = "fail" THEN Raise(OtherException(net.cause))
    ELSE IF net.status # 200
         THEN Raise(HTTPException(net.status, GetOr(net.body.msg_cn, UNKNOWN_ERROR)))
    ELSE Ok(net.body)

generate_image(net) == Except500(generate_image_try(net))

\* the try block of check_task_result
check_task_result_try(net) ==
    IF net.kind = "fail" THEN Raise(OtherException(net.cause))
    ELSE IF net.body.code = Some(0) THEN Ok(net.body.data)
    ELSE Raise(HTTPException(400, GetOr(net.body.msg_cn, UNKNOWN_ERROR)))

check_task_result(net) == Except500(check_task_result_try(net))

\* the JSON payload generate_image posts
Payload(cnet_data, description_data, style_id, size_id, app_id, version_id, generate_num) ==
    [cnet |-> cnet_data, description |-> description_data, styleId |-> style_id,
     sizeId |-> size_id, appId |-> app_id, versionId |-> version_id,
     generateNum |-> generate_num]

----------------------------------------------------------------------------
(* Local storage and clock *)

\* datetime.now().strftime("%Y%m%d_%H%M%S"): the clock, in ticks, cut to whole seconds
strftime(t) == ToString(t \div TicksPerSecond)

\* os.path.splitext(filename)[1]: a filename is the sequence of its dot-separated
\* parts; the extension is the last part with its dot, or empty if there is no dot
splitext(filename) ==
    IF Len(filename) > 1 THEN "." \o filename[Len(filename)] ELSE ""

\* os.path.join("input", timestamp + file_extension)
FilePath(t, filename) == "input/" \o strftime(t) \o splitext(filename)

\* save_uploaded_file: the destination, or HTTPException(500) when the write fails
save_uploaded_file(destination, storage_ok) ==
    IF storage_ok THEN Ok(destination)
    ELSE Raise(HTTPException(500, "file save failed: disk full"))

----------------------------------------------------------------------------
(* Requests: the callers' inputs *)

\* the uploaded files: name and bytes
UploadFiles ==
    { [filename |-> <<"cat", "jpg">>, bytes |-> "cat-bytes"],
      [filename |-> <<"dog", "jpg">>, bytes |-> "dog-bytes"] }

\* Form(default=...) of create_process, and a caller's own ids
DefaultIds ==
    [app_id |-> "1920079111241039873", version_id |-> "1920079111245234177",
     cnet_form_id |-> "17466175263110005"]

RawIds == {DefaultIds, [app_id |-> "appX", version_id |-> "verX", cnet_form_id |-> "cnetX"]}

GenerateNums == {1, 2}

TemplateIds == {0, 1, 5}

\* a request as the caller sent it; /generate declares no ids and no count,
\* so a count a caller sends there is not bound to any parameter
Form(endpoint, file, ids, generate_num, template_id) ==
    [endpoint |-> endpoint, file |-> file, app_id |-> ids.app_id,
     version_id |-> ids.version_id, cnet_form_id |-> ids.cnet_form_id,
     generate_num |-> generate_num, template_id |-> template_id]

NoIds == [app_id |-> "", version_id |-> "", cnet_form_id |-> ""]

----------------------------------------------------------------------------
(* Responses *)

NoResponse == [status |-> "none"]

ErrorResponse(exc) ==
    [status |-> "error", status_code |-> exc.status_code, detail |-> exc.detail]

\* the except clauses of create_process: every exception becomes a 500
create_process_except(r) == Except500(r)

\* generate_with_template with the except clauses of create_process
generate_with_template_except_all(r) == Except500(r)

\* the except clauses of generate_with_template: an HTTPException passes
\* through, anything else becomes a 500
generate_with_template_except(r) ==
    IF r.ok \/ r.exc.type = "HTTPException" THEN r ELSE Except500(r)

EndpointExcept(endpoint, r) ==
    IF endpoint = "/create" THEN create_process_except(r)
    ELSE generate_with_template_except(r)

\* cnet = [{"id": cnet_form_id, "imageUrl": upload_result["imageUrl"],
\*          "path": upload_result["path"]}]
BuildCnet(cnet_form_id, upload_result) ==
    IF upload_result = None
    THEN Raise(OtherException("'NoneType' object is not subscriptable"))
    ELSE IF upload_result[1].imageUrl = None THEN Raise(OtherException("'imageUrl'"))
    ELSE IF upload_result[1].path = None THEN Raise(OtherException("'path'"))
    ELSE Ok(<< [id |-> cnet_form_id, imageUrl |-> upload_result[1].imageUrl[1],
                path |-> upload_result[1].path[1]] >>)

\* the checks of the generation response, down to the task id
ExtractTaskId(generation_result) ==
    IF generation_result = EmptyBody
    THEN Raise(HTTPException(400, "API response is empty"))
    ELSE IF generation_result.code # Some(0)
    THEN Raise(HTTPException(400,
             OrElse(generation_result.msg_cn, OrElse(generation_result.msg, UNKNOWN_ERROR))))
    ELSE IF generation_result.data = None
    THEN Raise(HTTPException(400, "API response format error: missing data field"))
    ELSE IF generation_result.data[1].taskId = None \/ generation_result.data[1].taskId = Some("")
    THEN Raise(HTTPException(400, "no task id obtained"))
    ELSE Ok(generation_result.data[1].taskId[1])

----------------------------------------------------------------------------
(* Status replies and the Status Normalizer *)

\* class TaskState(Enum)
COMPLETED == 10
FAILED == 20
PROCESSING == 30

TaskStateValues == {COMPLETED, FAILED, PROCESSING}

\* TaskState(state).name
TaskStateName(state) ==
    IF state = COMPLETED THEN "COMPLETED"
    ELSE IF state = FAILED THEN "FAILED"
    ELSE "PROCESSING"

TaskIds == {"T1", "T2"}

TaskRecord(id, state, images, dates) ==
    [id |-> id, state |-> state, images |-> images, startDate |-> dates[1],
     finishDate |-> dates[2], createDate |-> dates[3]]

\* state codes the enum does not know
OtherStates == {40}

RecordStates ==
    {Some(COMPLETED), Some(FAILED), Some(PROCESSING), None} \cup {Some(c) : c \in OtherStates}

RecordImages == {None, Some(<< >>), Some(<<"https://x/i1", "https://x/i2">>),
                 Some(<<"https://x/i2", "https://x/i1">>)}

RecordDates == { <<None, None, None>>, <<Some("d1"), None, Some("d0")>>,
                 <<Some("d1"), Some("d2"), Some("d0")>> }

StatusReplies ==
    { NetFail("connection refused"),
      NetJson(200, Body(Some(1), Some("task not found"), None, None)),
      NetJson(200, Body(Some(0), None, None, None)) }
    \cup { NetJson(200, Body(Some(0), None, None, Some(TaskRecord(Some(id), st, im, d)))) :
             id \in TaskIds, st \in RecordStates, im \in RecordImages, d \in RecordDates }

\* state_text without the membership test: any code that is not 10 or 20 reads PROCESSING
StateTextUnguarded(state) ==
    IF state = None THEN "UNKNOWN" ELSE TaskStateName(state[1])

\* state_text: TaskState(state).name if state in [s.value for s in TaskState] else "UNKNOWN"
StateText(state) ==
    IF state # None /\ state[1] \in TaskStateValues
    THEN TaskStateName(state[1]) ELSE "UNKNOWN"

\* the completed branch keeping only the first image
CompletedResponseFirstImage(task_result) ==
    [status |-> "success", id |-> task_result.id, state_text |-> StateText(task_result.state),
     state |-> task_result.state, startDate |-> task_result.startDate,
     finishDate |-> task_result.finishDate, createDate |-> task_result.createDate,
     images |-> IF GetOr(task_result.images, << >>) = << >> THEN << >>
                ELSE << Head(GetOr(task_result.images, << >>)) >>]

\* the response of the completed branch
CompletedResponse(task_result) ==
    [status |-> "success", id |-> task_result.id, state_text |-> StateText(task_result.state),
     state |-> task_result.state, startDate |-> task_result.startDate,
     finishDate |-> task_result.finishDate, createDate |-> task_result.createDate,
     images |-> GetOr(task_result.images, << >>)]

\* the response of the else branch
OtherResponse(task_result) ==
    [status |-> "success", id |-> task_result.id, state_text |-> StateText(task_result.state),
     state |-> task_result.state, startDate |-> task_result.startDate,
     finishDate |-> task_result.finishDate, createDate |-> task_result.createDate,
     images |-> GetOr(task_result.images, << >>)]

\* the try block of get_process_status, from the provider's reply on
get_process_status_try(net) ==
    LET checked == check_task_result(net)
    IN IF ~checked.ok THEN checked
       ELSE IF checked.val = None
       THEN Raise(OtherException("'NoneType' object has no attribute 'get'"))
       ELSE LET task_result == checked.val[1]
            IN IF task_result.state = Some(COMPLETED)
               THEN Ok(CompletedResponse(task_result))
               ELSE Ok(OtherResponse(task_result))

get_process_status(net) ==
    LET out == Except500(get_process_status_try(net))
    IN IF out.ok THEN out.val ELSE ErrorResponse(out.exc)

----------------------------------------------------------------------------
(* State *)

NoFile == [filename |-> << >>, bytes |-> ""]

IdleHandler ==
    [pc |-> "idle", form |-> Form("", NoFile, NoIds, 0, 0), app_id |-> "",
     version_id |-> "", cnet_form_id |-> "", file_path |-> "", upload_result |-> None,
     template |-> None, response |-> NoResponse]

IdlePoll == [pc |-> "idle", task_id |-> "", response |-> NoResponse]

Init ==
    /\ now = 0
    /\ fs = << >>
    /\ TEMPLATES \in {load_templates(source) : source \in ConfigSources}
    /\ handler = [r \in Req |-> IdleHandler]
    /\ remote = [r \in Req \cup {0} |-> << >>]
    /\ poll = IdlePoll

\* the remote calls a handler has issued, as the provider sees them: what was
\* asked, the file bytes that were sent, and the reply once it has come
UploadCall(file_path) ==
    [op |-> "uploadAsset", file_path |-> file_path, sent |-> None, reply |-> None]

SubmitCall(payload) == [op |-> "submitGeneration", payload |-> payload, reply |-> None]

FetchCall(task_id, is_china) ==
    [op |-> "fetchTaskStatus", task_id |-> task_id, is_china |-> is_china, reply |-> None]

\* the reply to the last call of a log has come
Replied(log, net) == [log EXCEPT ![Len(log)].reply = Some(net)]

\* the handler of r ends with an exception
Fail(r, form, exc) ==
    handler' = [handler EXCEPT ![r] =
                  [@ EXCEPT !.pc = "done", !.form = form, !.response = ErrorResponse(exc)]]

\* save the file under a timestamped name and start the upload
PersistAndUpload(r, form, ids, template, storage_ok) ==
    LET file_path == FilePath(now, form.file.filename)
        saved == save_uploaded_file(file_path, storage_ok)
    IN IF saved.ok
       THEN /\ fs' = (file_path :> form.file.bytes) @@ fs
            /\ handler' = [handler EXCEPT ![r] =
                 [pc |-> "upload", form |-> form, app_id |-> ids.app_id,
                  version_id |-> ids.version_id, cnet_form_id |-> ids.cnet_form_id,
                  file_path |-> file_path, upload_result |-> None,
                  template |-> template, response |-> NoResponse]]
            /\ remote' = [remote EXCEPT ![r] = Append(@, UploadCall(file_path))]
       ELSE /\ Fail(r, form, EndpointExcept(form.endpoint, saved).exc)
            /\ UNCHANGED <<fs, remote>>

create_process_start(r) ==
    /\ handler[r].pc = "idle"
    /\ \E file \in UploadFiles, ids \in RawIds, n \in GenerateNums, storage_ok \in BOOLEAN :
         PersistAndUpload(r, Form("/create", file, ids, n, 0), ids, None, storage_ok)
    /\ UNCHANGED <<now, TEMPLATES, poll>>

generate_with_template_start(r) ==
    /\ handler[r].pc = "idle"
    /\ \E file \in UploadFiles, tid \in TemplateIds, n \in GenerateNums, storage_ok \in BOOLEAN :
         LET form == Form("/generate", file, NoIds, n, tid)
             template == get_template_config(TEMPLATES, tid)
         IN IF template = None
            THEN /\ Fail(r, form, generate_with_template_except(Raise(HTTPException(400,
                        "template id " \o ToString(tid) \o " does not exist"))).exc)
                 /\ UNCHANGED <<fs, remote>>
            ELSE PersistAndUpload(r, form, template[1], template, storage_ok)
    /\ UNCHANGED <<now, TEMPLATES, poll>>

\* generate_num taken from the caller on both endpoints
GenerateNumFromCaller(form) == form.generate_num

\* generate_num of the generate_image call: the caller's on /create, 1 on /generate
GenerateNum(form) == IF form.endpoint = "/create" THEN form.generate_num ELSE 1

\* upload_image_returns with one more try of the upload after a failure
upload_image_returns_retry(r) ==
    /\ handler[r].pc = "upload"
    /\ \E net \in UploadReplies :
         LET h == handler[r]
             sent == IF net.kind = "json" THEN Some(fs[h.file_path]) ELSE None
             up == upload_image(net)
             cnet == IF up.ok THEN BuildCnet(h.cnet_form_id, up.val) ELSE up
             log == Replied([remote[r] EXCEPT ![Len(remote[r])].sent = sent], net)
         IN IF cnet.ok
            THEN /\ handler' = [handler EXCEPT ![r] =
                                  [@ EXCEPT !.pc = "submit", !.upload_result = up.val]]
                 /\ remote' = [remote EXCEPT ![r] = Append(log,
                       SubmitCall(Payload(cnet.val, << >>, "", "", h.app_id, h.version_id,
                                          GenerateNum(h.form))))]
            ELSE IF Len(log) < 2
            THEN /\ remote' = [remote EXCEPT ![r] = Append(log, UploadCall(h.file_path))]
                 /\ UNCHANGED handler
            ELSE /\ Fail(r, h.form, EndpointExcept(h.form.endpoint, cnet).exc)
                 /\ remote' = [remote EXCEPT ![r] = log]
    /\ UNCHANGED <<now, fs, TEMPLATES, poll>>

upload_image_returns(r) ==
    /\ handler[r].pc = "upload"
    /\ \E net \in UploadReplies :
         LET h == handler[r]
             sent == IF net.kind = "json" THEN Some(fs[h.file_path]) ELSE None
             up == upload_image(net)
             cnet == IF up.ok THEN BuildCnet(h.cnet_form_id, up.val) ELSE up
             log == Replied([remote[r] EXCEPT ![Len(remote[r])].sent = sent], net)
         IN IF cnet.ok
            THEN /\ handler' = [handler EXCEPT ![r] =
                                  [@ EXCEPT !.pc = "submit", !.upload_result = up.val]]
                 /\ remote' = [remote EXCEPT ![r] = Append(log,
                       SubmitCall(Payload(cnet.val, << >>, "", "", h.app_id, h.version_id,
                                          GenerateNum(h.form))))]
            ELSE /\ Fail(r, h.form, EndpointExcept(h.form.endpoint, cnet).exc)
                 /\ remote' = [remote EXCEPT ![r] = log]
    /\ UNCHANGED <<now, fs, TEMPLATES, poll>>

\* the response of a create request that got its task id
SuccessResponse(h, task_id) ==
    IF h.form.endpoint = "/create"
    THEN [status |-> "success", task_id |-> task_id, upload_result |-> h.upload_result,
          local_path |-> h.file_path]
    ELSE [status |-> "success", task_id |-> task_id, template_id |-> h.form.template_id,
          template_name |-> h.template[1].name, upload_result |-> h.upload_result,
          local_path |-> h.file_path]

generate_image_returns(r) ==
    /\ handler[r].pc = "submit"
    /\ \E net \in SubmitReplies :
         LET h == handler[r]
             gen == generate_image(net)
             task == IF gen.ok THEN ExtractTaskId(gen.val) ELSE gen
             out == EndpointExcept(h.form.endpoint, task)
         IN /\ handler' = [handler EXCEPT ![r] =
                 [@ EXCEPT !.pc = "done",
                           !.response = IF out.ok THEN SuccessResponse(h, out.val)
                                         ELSE ErrorResponse(out.exc)]]
            /\ remote' = [remote EXCEPT ![r] = Replied(@, net)]
    /\ UNCHANGED <<now, fs, TEMPLATES, poll>>

\* GET /status/{task_id}: the handler asks the provider, always with is_china=True
get_process_status_start ==
    /\ poll.pc \in {"idle", "done"}
    /\ \E task_id \in TaskIds :
         /\ poll' = [pc |-> "fetch", task_id |-> task_id, response |-> NoResponse]
         /\ remote' = [remote EXCEPT ![0] = << FetchCall(task_id, TRUE) >>]
    /\ UNCHANGED <<now, fs, TEMPLATES, handler>>

check_task_result_returns ==
    /\ poll.pc = "fetch"
    /\ \E net \in StatusReplies :
         /\ poll' = [poll EXCEPT !.pc = "done", !.response = get_process_status(net)]
         /\ remote' = [remote EXCEPT ![0] = Replied(@, net)]
    /\ UNCHANGED <<now, fs, TEMPLATES, handler>>

\* time passes
Tick ==
    /\ now < MaxClock
    /\ now' = now + 1
    /\ UNCHANGED <<fs, TEMPLATES, handler, remote, poll>>

CreateStep(r) ==
    \/ create_process_start(r)
    \/ generate_with_template_start(r)
    \/ upload_image_returns(r)
    \/ generate_image_returns(r)

\* one create request and the status polls of its caller
Next ==
    \/ CreateStep(1)
    \/ get_process_status_start
    \/ check_task_result_returns
    \/ Tick

Spec == Init /\ [][Next]_vars

\* two create requests in flight at the same time
NextConcurrent ==
    \/ \E r \in Req : CreateStep(r)
    \/ Tick

SpecConcurrent == Init /\ [][NextConcurrent]_vars

----------------------------------------------------------------------------
(* What the provider's replies say, read off the call log *)

\* the provider answered and declined: an embedded code that is not zero
Declined(reply) ==
    reply.kind = "json" /\ reply.body.code # None /\ reply.body.code # Some(0)

\* the upload step failed: no reply, or a reply that is not a success envelope
UploadFailed(reply) == reply.kind = "fail" \/ reply.body.code # Some(0)

\* the message of a failed upload: the transport's cause or the provider's text
UploadFailureMessage(reply) ==
    IF reply.kind = "fail" THEN reply.cause ELSE GetOr(reply.body.msg_cn, UNKNOWN_ERROR)

\* an error detail carries a message: the message itself, behind the status
\* codes the except clauses print in front of it
Carries(detail, message) ==
    \E prefix \in {"", "400: ", "500: ", "500: 400: ", "500: 500: ", "500: 500: 400: "} :
        detail = prefix \o message

ClientError(response) ==
    response.status = "error" /\ response.status_code \in 400..499

Finished(r) == handler[r].pc = "done"

\* the reply to the i-th remote call of request r
ReplyOf(r, i) == remote[r][i].reply[1]

\* the task record of a status reply, when it carries one
HasRecord(reply) ==
    reply.kind = "json" /\ reply.body.code = Some(0) /\ reply.body.data # None

RecordOf(reply) == reply.body.data[1]

----------------------------------------------------------------------------
(* Claims *)

\* C1: for a provider task record whose state is the failed code (20) or the
\* processing code (30), whatever images field it carries, the images list of
\* the getStatus response is empty.
C1_NoImagesUnlessCompleted ==
    poll.pc = "done" =>
        LET reply == ReplyOf(0, 1)
        IN (HasRecord(reply) /\ RecordOf(reply).state \in {Some(FAILED), Some(PROCESSING)})
           => (poll.response.status = "success" /\ poll.response.images = << >>)

\* C2: when submitGeneration returns HTTP 200 with a non-zero embedded code and
\* a localized message M, the create request (on /create and on /generate) ends
\* in a 400-class error whose message is exactly M, with no task_id.
C2_RejectedWithProviderMessage ==
    \A r \in Req :
        (Finished(r) /\ Len(remote[r]) = 2) =>
            LET reply == ReplyOf(r, 2)
            IN (/\ Declined(reply)
                /\ reply.status = 200
                /\ reply.body.msg_cn # None
                /\ reply.body.msg_cn # Some(""))
               => (/\ ClientError(handler[r].response)
                   /\ handler[r].response.detail = reply.body.msg_cn[1])

\* C3: whenever the provider explicitly declines (non-zero embedded code for
\* upload and status, non-200 HTTP status for submit) the caller-visible error
\* is 400-class; a provider rejection is never reported as 500-class.
C3_RejectionIsClientError ==
    /\ \A r \in Req :
         Finished(r) =>
            /\ (Len(remote[r]) = 1 /\ Declined(ReplyOf(r, 1)))
                  => ClientError(handler[r].response)
            /\ (Len(remote[r]) = 2 /\ ReplyOf(r, 2).kind = "json" /\ ReplyOf(r, 2).status # 200)
                  => ClientError(handler[r].response)
    /\ (poll.pc = "done" /\ Declined(ReplyOf(0, 1))) => ClientError(poll.response)

\* C4: a create request (raw or template path) whose upload step fails returns
\* no task_id, never issues submitGeneration, and its error carries the upload
\* failure's message, not a downstream one.
C4_UploadFailureAborts ==
    \A r \in Req :
        (Len(remote[r]) >= 1 /\ remote[r][1].reply # None /\ UploadFailed(ReplyOf(r, 1))) =>
            /\ Finished(r)
            /\ Len(remote[r]) = 1
            /\ handler[r].response.status = "error"
            /\ Carries(handler[r].response.detail, UploadFailureMessage(ReplyOf(r, 1)))

\* C4 witness: a template request whose upload the provider declined with a message
C4_Witness ==
    \E r \in Req :
        /\ Finished(r)
        /\ handler[r].form.endpoint = "/generate"
        /\ Len(remote[r]) = 1
        /\ Declined(ReplyOf(r, 1))
        /\ ReplyOf(r, 1).body.msg_cn = Some("bad image")

C6_TemplateFixesCountAndIds ==
    \A r \in Req :
        \A i \in 1..Len(remote[r]) :
            remote[r][i].op = "submitGeneration" =>
                LET payload == remote[r][i].payload
                    form == handler[r].form
                IN IF form.endpoint = "/generate"
                   THEN /\ payload.generateNum = 1
                        /\ form.template_id \in DOMAIN TEMPLATES
                        /\ payload.appId = TEMPLATES[form.template_id].app_id
                        /\ payload.versionId = TEMPLATES[form.template_id].version_id
                        /\ Len(payload.cnet) = 1
                        /\ payload.cnet[1].id = TEMPLATES[form.template_id].cnet_form_id
                   ELSE payload.generateNum = form.generate_num

\* C6 witness: a template request that sent a count of 2 has issued its submit
C6_Witness ==
    \E r \in Req :
        /\ handler[r].form.endpoint = "/generate"
        /\ handler[r].form.template_id = 1
        /\ handler[r].form.generate_num = 2
        /\ Len(remote[r]) = 2
        /\ remote[r][2].op = "submitGeneration"

C8_ExclusiveDestinationPath ==
    \A r \in Req :
        /\ (Len(remote[r]) >= 1 /\ remote[r][1].sent # None)
              => remote[r][1].sent = Some(handler[r].form.file.bytes)
        /\ (Finished(r) /\ handler[r].response.status = "success")
              => fs[handler[r].response.local_path] = handler[r].form.file.bytes

\* C9: a create request answered {code:0, data:{taskId:T}} returns task_id T,
\* and a status request for T answered with a completed record returns exactly
\* the record's image URLs, in the record's order.
C9_RoundTrip ==
    \A r \in Req :
        (/\ Finished(r)
         /\ Len(remote[r]) = 2
         /\ ReplyOf(r, 2).kind = "json"
         /\ ReplyOf(r, 2).status = 200
         /\ ReplyOf(r, 2).body.code = Some(0)
         /\ ReplyOf(r, 2).body.data # None
         /\ ReplyOf(r, 2).body.data[1].taskId \notin {None, Some("")})
        => /\ handler[r].response.status = "success"
           /\ handler[r].response.task_id = ReplyOf(r, 2).body.data[1].taskId[1]
           /\ (/\ poll.pc = "done"
               /\ poll.task_id = handler[r].response.task_id
               /\ HasRecord(ReplyOf(0, 1))
               /\ RecordOf(ReplyOf(0, 1)).state = Some(COMPLETED)
               /\ RecordOf(ReplyOf(0, 1)).images # None)
              => /\ remote[0][1].task_id = handler[r].response.task_id
                 /\ poll.response.status = "success"
                 /\ poll.response.images = RecordOf(ReplyOf(0, 1)).images[1]

\* C9 witness: task T2 was created and its status, completed, lists two images
C9_Witness ==
    \E r \in Req :
        /\ Finished(r)
        /\ handler[r].response.status = "success"
        /\ handler[r].response.task_id = "T2"
        /\ poll.pc = "done"
        /\ poll.task_id = "T2"
        /\ HasRecord(ReplyOf(0, 1))
        /\ RecordOf(ReplyOf(0, 1)).state = Some(COMPLETED)
        /\ RecordOf(ReplyOf(0, 1)).images = Some(<<"https://x/i2", "https://x/i1">>)

\* a remote call did not succeed: no reply or an envelope whose code is not
\* zero, and for submitGeneration also an HTTP status that is not 200
CallFailed(call) ==
    /\ call.reply # None
    /\ \/ call.reply[1].kind = "fail"
       \/ call.reply[1].body.code # Some(0)
       \/ (call.op = "submitGeneration" /\ call.reply[1].status # 200)

\* C10: the remote calls of one create request are a prefix of
\* [uploadAsset, submitGeneration], each issued at most once; submitGeneration
\* is issued only after uploadAsset returned successfully; a failed call is
\* never followed by another call and ends the request with an error; one
\* status request issues fetchTaskStatus exactly once.
C10_NoRetryCallOrder ==
    /\ \A r \in Req :
         /\ Len(remote[r]) <= 2
         /\ \A i \in 1..Len(remote[r]) :
              /\ remote[r][i].op = <<"uploadAsset", "submitGeneration">>[i]
              /\ CallFailed(remote[r][i]) =>
                    /\ i = Len(remote[r])
                    /\ Finished(r)
                    /\ handler[r].response.status = "error"
         /\ Len(remote[r]) = 2 =>
              /\ remote[r][1].reply # None
              /\ ~UploadFailed(ReplyOf(r, 1))
         /\ handler[r].pc \in {"upload", "submit"} => Len(remote[r]) >= 1
    /\ poll.pc \in {"fetch", "done"} =>
         /\ Len(remote[0]) = 1
         /\ remote[0][1].op = "fetchTaskStatus"
         /\ remote[0][1].task_id = poll.task_id

\* C10 witness: a request whose submit failed after a good upload, and a status
\* request that was answered
C10_Witness ==
    /\ \E r \in Req :
         /\ Finished(r)
         /\ Len(remote[r]) = 2
         /\ CallFailed(remote[r][2])
    /\ poll.pc = "done"

====
